---- MODULE Spec2Model ----
(***************************************************************************)
(* A model of sr.py, the aggregation pipeline that renders one OBS change  *)
(* request: four XML documents are fetched one after the other and parsed  *)
(* into one shared RequestID object (generate_request), and app.py turns   *)
(* any exception of a render cycle into an HTTP 500 answer.                *)
(*                                                                         *)
(* Python values are represented as follows.                               *)
(*   str           a TLA+ string; startswith, endswith and "in" are        *)
(*                 computed on its characters with Len and SubSeq.         *)
(*   None          the string None below, which no document carries.       *)
(*   dict          a function whose DOMAIN is the set of keys; {} is       *)
(*                 EmptyDict.  d[k] with k outside the domain is KeyError. *)
(*   list          a sequence.                                             *)
(*   Element       a record: one field per attribute read by the code      *)
(*                 (None when the element lacks the attribute) and one     *)
(*                 sequence per child tag, in document order.  find(tag)   *)
(*                 is the first element of that sequence, findall(tag)     *)
(*                 the whole sequence.                                     *)
(*   root          <<>> when fetch_xml returned None, else <<document>>.   *)
(*   exception     a record [type, arg, where]; NoExc when none is raised. *)
(***************************************************************************)
EXTENDS Integers, Sequences, FiniteSets, TLC

VARIABLES
    pc,       \* the position of the render cycle
    root,     \* the document the last fetch_xml returned
    req,      \* the RequestID object of the cycle
    err,      \* the exception that left generate_request, NoExc if none
    resp,     \* what show_request answered: [status, rid, error]
    absent    \* the documents for which fetch_xml logged a failure

vars == <<pc, root, req, err, resp, absent>>

None == "<None>"

EmptyDict == [k \in {} |-> None]

\* An exception object: its class, its message argument and the function that
\* raised it.  The built-in exceptions the code raises carry no request id and
\* no field name.
NoExc == [type |-> None, arg |-> None, where |-> None, rid |-> None, field |-> None]

Exc(type, arg, where) ==
    [type |-> type, arg |-> arg, where |-> where, rid |-> None, field |-> None]

(***************************************************************************)
(* str methods                                                             *)
(***************************************************************************)
StartsWith(s, prefix) ==
    /\ Len(s) >= Len(prefix)
    /\ SubSeq(s, 1, Len(prefix)) = prefix

EndsWith(s, suffix) ==
    /\ Len(s) >= Len(suffix)
    /\ SubSeq(s, Len(s) - Len(suffix) + 1, Len(s)) = suffix

\* Python's "sub in s"
Contains(s, sub) ==
    \E i \in 1..(Len(s) - Len(sub) + 1) : SubSeq(s, i, i + Len(sub) - 1) = sub

\* Python's truth value of an optional string
Truthy(s) == s # None /\ s # ""

(***************************************************************************)
(* datetime.fromisoformat on the strict profile YYYY-MM-DD,                *)
(* YYYY-MM-DDTHH:MM:SS and YYYY-MM-DDTHH:MM:SS+HH:MM.  The result is       *)
(* [ok, exc, key, aware]: key is <<year, month, day, hour, minute, second>>*)
(* and aware tells whether the value carries a UTC offset.                 *)
(***************************************************************************)
Digits == <<"0", "1", "2", "3", "4", "5", "6", "7", "8", "9">>

IsDigit(c) == \E i \in 1..10 : Digits[i] = c

DigitVal(c) == (CHOOSE i \in 1..10 : Digits[i] = c) - 1

AllDigits(s) == \A i \in 1..Len(s) : IsDigit(SubSeq(s, i, i))

RECURSIVE Num(_)
Num(s) ==
    IF Len(s) = 0 THEN 0
    ELSE 10 * Num(SubSeq(s, 1, Len(s) - 1)) + DigitVal(SubSeq(s, Len(s), Len(s)))

DaysInMonth(y, m) ==
    IF m = 2
    THEN (IF (y % 4 = 0 /\ y % 100 # 0) \/ y % 400 = 0 THEN 29 ELSE 28)
    ELSE IF m \in {4, 6, 9, 11} THEN 30 ELSE 31

ValidDate(s) ==
    /\ Len(s) = 10
    /\ SubSeq(s, 5, 5) = "-" /\ SubSeq(s, 8, 8) = "-"
    /\ AllDigits(SubSeq(s, 1, 4)) /\ AllDigits(SubSeq(s, 6, 7)) /\ AllDigits(SubSeq(s, 9, 10))
    /\ Num(SubSeq(s, 1, 4)) >= 1
    /\ Num(SubSeq(s, 6, 7)) \in 1..12
    /\ Num(SubSeq(s, 9, 10)) \in 1..DaysInMonth(Num(SubSeq(s, 1, 4)), Num(SubSeq(s, 6, 7)))

\* s is HH:MM:SS
ValidTime(s) ==
    /\ Len(s) = 8
    /\ SubSeq(s, 3, 3) = ":" /\ SubSeq(s, 6, 6) = ":"
    /\ AllDigits(SubSeq(s, 1, 2)) /\ AllDigits(SubSeq(s, 4, 5)) /\ AllDigits(SubSeq(s, 7, 8))
    /\ Num(SubSeq(s, 1, 2)) < 24 /\ Num(SubSeq(s, 4, 5)) < 60 /\ Num(SubSeq(s, 7, 8)) < 60

\* s is +HH:MM or -HH:MM
ValidOffset(s) ==
    /\ Len(s) = 6
    /\ SubSeq(s, 1, 1) \in {"+", "-"}
    /\ SubSeq(s, 4, 4) = ":"
    /\ AllDigits(SubSeq(s, 2, 3)) /\ AllDigits(SubSeq(s, 5, 6))
    /\ Num(SubSeq(s, 2, 3)) < 24 /\ Num(SubSeq(s, 5, 6)) < 60

DateKey(s) == <<Num(SubSeq(s, 1, 4)), Num(SubSeq(s, 6, 7)), Num(SubSeq(s, 9, 10))>>

TimeKey(s) == <<Num(SubSeq(s, 1, 2)), Num(SubSeq(s, 4, 5)), Num(SubSeq(s, 7, 8))>>

NoDatetime == [key |-> <<>>, aware |-> FALSE]

fromisoformat(s) ==
    IF s = None
    THEN [ok |-> FALSE, exc |-> "TypeError", dt |-> NoDatetime]
    ELSE IF ValidDate(s)
    THEN [ok |-> TRUE, exc |-> None,
          dt |-> [key |-> DateKey(s) \o <<0, 0, 0>>, aware |-> FALSE]]
    ELSE IF Len(s) = 19 /\ ValidDate(SubSeq(s, 1, 10)) /\ SubSeq(s, 11, 11) \in {"T", " "}
            /\ ValidTime(SubSeq(s, 12, 19))
    THEN [ok |-> TRUE, exc |-> None,
          dt |-> [key |-> DateKey(s) \o TimeKey(SubSeq(s, 12, 19)), aware |-> FALSE]]
    ELSE IF Len(s) = 25 /\ ValidDate(SubSeq(s, 1, 10)) /\ SubSeq(s, 11, 11) \in {"T", " "}
            /\ ValidTime(SubSeq(s, 12, 19)) /\ ValidOffset(SubSeq(s, 20, 25))
    THEN [ok |-> TRUE, exc |-> None,
          dt |-> [key |-> DateKey(s) \o TimeKey(SubSeq(s, 12, 19)), aware |-> TRUE]]
    ELSE [ok |-> FALSE, exc |-> "ValueError", dt |-> NoDatetime]

\* datetime.replace(tzinfo=timezone.utc)
ReplaceTzUtc(dt) == [dt EXCEPT !.aware = TRUE]

\* a < b for two naive datetimes: the fields compare lexicographically
RECURSIVE LexLess(_, _)
LexLess(a, b) ==
    IF Len(a) = 0 \/ Len(b) = 0 THEN FALSE
    ELSE IF a[1] # b[1] THEN a[1] < b[1]
    ELSE LexLess(Tail(a), Tail(b))

(***************************************************************************)
(* list.sort(key=...): a stable sort.  keys[i] is the key of the i-th      *)
(* element, a tuple of integers compared lexicographically; SortedIndexes  *)
(* is the order in which the sort leaves the positions 1..Len(keys), built *)
(* by inserting each position after every position whose key is not        *)
(* greater.                                                                *)
(***************************************************************************)
RECURSIVE InsertStable(_, _, _)
InsertStable(sorted, i, keys) ==
    IF Len(sorted) = 0 THEN <<i>>
    ELSE IF LexLess(keys[i], keys[sorted[Len(sorted)]])
         THEN Append(InsertStable(SubSeq(sorted, 1, Len(sorted) - 1), i, keys),
                     sorted[Len(sorted)])
         ELSE Append(sorted, i)

RECURSIVE SortedIndexes(_, _)
SortedIndexes(n, keys) ==
    IF n = 0 THEN <<>>
    ELSE InsertStable(SortedIndexes(n - 1, keys), n, keys)

StableSort(items, keys) ==
    LET order == SortedIndexes(Len(items), keys)
    IN  [i \in 1..Len(items) |-> items[order[i]]]

RECURSIVE Flatten(_)
Flatten(ss) == IF Len(ss) = 0 THEN <<>> ELSE ss[1] \o Flatten(Tail(ss))

(***************************************************************************)
(* RequestID.__init__                                                      *)
(***************************************************************************)
PyList(items) == [type |-> "list", items |-> items]

PyDict(items) == [type |-> "dict", items |-> items]

BaseUrl(apiurl) ==
    IF Contains(apiurl, "suse.de") THEN "https://build.suse.de"
    ELSE "https://build.opensuse.org"

NewRequest(rid, apiurl) ==
    [rid |-> rid,
     apiurl |-> apiurl,
     creator |-> None,
     description |-> None,
     package |-> None,
     staging |-> None,
     action |-> EmptyDict,
     state |-> EmptyDict,
     reviews |-> <<>>,
     comments |-> <<>>,
     results |-> PyList(<<>>),
     history |-> <<>>,
     issues |-> <<>>,
     file_diffs |-> <<>>,
     external_url |-> BaseUrl(apiurl) \o "/requests/"]

\* dict.get(key): None when the key is missing
DictGet(d, key) == IF key \in DOMAIN d THEN d[key] ELSE None

\* the result of a parser: the request as the parser left it and the
\* exception it raised, NoExc when it returned
Returned(r) == [req |-> r, exc |-> NoExc]

Raised(r, type, arg, where) == [req |-> r, exc |-> Exc(type, arg, where)]

(***************************************************************************)
(* parse_request_xml                                                       *)
(***************************************************************************)
\* find(tag) on a child sequence, and an attribute of the element found
\* ("x.attrib.get(a) if x is not None else None")
AttrOfFirst(children, attr) ==
    IF Len(children) = 0 THEN None ELSE children[1][attr]

ActionDict(action_elem) ==
    [type |-> action_elem.type,
     source_project |-> AttrOfFirst(action_elem.source, "project"),
     source_package |-> AttrOfFirst(action_elem.source, "package"),
     source_rev |-> AttrOfFirst(action_elem.source, "rev"),
     target_project |-> AttrOfFirst(action_elem.target, "project"),
     target_package |-> AttrOfFirst(action_elem.target, "package")]

StateDict(state_elem, created) ==
    LET base == [name |-> state_elem.name,
                 who |-> state_elem.who,
                 when |-> state_elem.when,
                 created |-> state_elem.created,
                 created_utc |-> ReplaceTzUtc(created),
                 comment |-> state_elem.comment]
    IN  IF state_elem.name = "superseded"
        THEN base @@ ("superseded_by" :> state_elem.superseded_by)
        ELSE base

HistoryDict(hist) ==
    [who |-> hist.who,
     when |-> hist.when,
     description |-> hist.description,
     comment |-> hist.comment]

ReviewDict(review_elem) ==
    [state |-> review_elem.state,
     when |-> review_elem.when,
     who |-> review_elem.who,
     by_user |-> review_elem.by_user,
     by_group |-> review_elem.by_group,
     by_project |-> review_elem.by_project,
     comment |-> review_elem.comment,
     history |-> [i \in 1..Len(review_elem.history) |-> HistoryDict(review_elem.history[i])]]

\* the package name, from the staging known when the statement runs
PackageName(staging, action) ==
    IF Truthy(staging)
    THEN DictGet(action, "target_package")
    ELSE DictGet(action, "source_package")

\* "for review in req.reviews: for event in review.get('history', [])"
ReviewEvents(reviews) ==
    Flatten([i \in 1..Len(reviews) |-> reviews[i].history])

\* The timestamp_relative label of an entry depends on the wall clock and is
\* left out; the subtraction "now - h['when']" that computes it is kept as the
\* TypeError it raises on an aware datetime.
HistoryEntry(event, when) ==
    [who |-> event.who,
     when |-> when,
     description |-> event.description,
     comment |-> event.comment]

\* a variant of SortHistory that sorts without keeping the order of equal
\* timestamps
SortHistoryTiesReversed(history) ==
    LET n == Len(history)
        reversed == [i \in 1..n |-> history[n + 1 - i]]
    IN  StableSort(reversed, [i \in 1..n |-> reversed[i].when.key])

\* req.history.sort(key=lambda x: x["when"])
SortHistory(history) ==
    StableSort(history, [i \in 1..Len(history) |-> history[i].when.key])

STAGING_MARKER == "openSUSE:Factory:Staging"

IsStagingReview(review) ==
    /\ Truthy(review.by_project)
    /\ Contains(review.by_project, STAGING_MARKER)

\* a variant of StagingLoop in which the first matching review wins
RECURSIVE StagingLoopFirstWins(_, _)
StagingLoopFirstWins(reviews, staging) ==
    IF Len(reviews) = 0 THEN staging
    ELSE StagingLoopFirstWins(Tail(reviews),
                              IF IsStagingReview(Head(reviews)) /\ staging = None
                              THEN Head(reviews).by_project
                              ELSE staging)

RECURSIVE StagingLoop(_, _)
StagingLoop(reviews, staging) ==
    IF Len(reviews) = 0 THEN staging
    ELSE StagingLoop(Tail(reviews),
                     IF IsStagingReview(Head(reviews))
                     THEN Head(reviews).by_project
                     ELSE staging)

\* the value of req.staging after the last block of parse_request_xml
InferStaging(state_name, reviews) ==
    IF state_name \notin {"accepted", "superseded"}
    THEN StagingLoop(reviews, None)
    ELSE None

\* the first iteration of a loop that raises: the smallest position of the
\* sequence of booleans at which it is TRUE, or 0
FirstIndex(raises) ==
    IF \E i \in 1..Len(raises) : raises[i]
    THEN CHOOSE i \in 1..Len(raises) : raises[i] /\ \A j \in 1..(i - 1) : ~raises[j]
    ELSE 0

ParseRequestXml(r0, rt) ==
    IF rt = <<>> THEN Returned(r0)
    ELSE
    LET doc == rt[1]
        r1 == [r0 EXCEPT !.creator = doc.creator,
                         !.description = doc.description,
                         !.action = IF Len(doc.action) = 0 THEN @
                                    ELSE ActionDict(doc.action[1])]
        has_state == Len(doc.state) > 0
        created == IF has_state THEN fromisoformat(doc.state[1].created)
                   ELSE fromisoformat(None)
        r2 == IF has_state
              THEN [r1 EXCEPT !.state = StateDict(doc.state[1], created.dt)]
              ELSE r1
        r3 == [r2 EXCEPT !.reviews =
                   @ \o [i \in 1..Len(doc.review) |-> ReviewDict(doc.review[i])]]
        r4 == [r3 EXCEPT !.package = PackageName(r3.staging, r3.action)]
        events == ReviewEvents(r4.reviews)
        parsed == [i \in 1..Len(events) |-> fromisoformat(events[i].when)]
        bad == FirstIndex([i \in 1..Len(events) |-> ~parsed[i].ok])
        flat == [i \in 1..Len(events) |-> HistoryEntry(events[i], parsed[i].dt)]
        mixed == \E i, j \in 1..Len(flat) : flat[i].when.aware # flat[j].when.aware
        sorted == SortHistory(flat)
        aware == \E i \in 1..Len(flat) : flat[i].when.aware
        r5 == [r4 EXCEPT !.history = sorted]
        r6 == [r5 EXCEPT !.staging = None]
    IN  IF has_state /\ ~created.ok
        THEN Raised(r1, created.exc, doc.state[1].created, "parse_request_xml")
        ELSE IF bad > 0
        THEN Raised([r4 EXCEPT !.history = SubSeq(flat, 1, bad - 1)],
                    parsed[bad].exc, events[bad].when, "parse_request_xml")
        ELSE IF mixed
        \* the sort compares a naive with an aware datetime
        THEN Raised([r4 EXCEPT !.history = flat], "TypeError", None, "parse_request_xml")
        ELSE IF aware
        \* "now - h['when']" with a naive now
        THEN Raised(r5, "TypeError", None, "parse_request_xml")
        ELSE IF "name" \notin DOMAIN r6.state
        THEN Raised(r6, "KeyError", "name", "parse_request_xml")
        ELSE Returned([r6 EXCEPT !.staging = InferStaging(r6.state.name, r6.reviews)])

(***************************************************************************)
(* parse_comments_request_xml                                              *)
(***************************************************************************)
Whitespace == {" ", "\t", "\n", "\r"}

RECURSIVE LStrip(_)
LStrip(s) ==
    IF Len(s) > 0 /\ SubSeq(s, 1, 1) \in Whitespace
    THEN LStrip(SubSeq(s, 2, Len(s)))
    ELSE s

RECURSIVE RStrip(_)
RStrip(s) ==
    IF Len(s) > 0 /\ SubSeq(s, Len(s), Len(s)) \in Whitespace
    THEN RStrip(SubSeq(s, 1, Len(s) - 1))
    ELSE s

\* "x.text.strip() if x.text else ''"
StrippedText(text) == IF Truthy(text) THEN LStrip(RStrip(text)) ELSE ""

CommentDict(comment_elem) ==
    [id |-> comment_elem.id,
     who |-> comment_elem.who,
     when |-> comment_elem.when,
     parent |-> comment_elem.parent,
     text |-> StrippedText(comment_elem.text)]

ParseCommentsRequestXml(r0, rt) ==
    IF rt = <<>> THEN Returned(r0)
    ELSE Returned([r0 EXCEPT !.comments =
             @ \o [i \in 1..Len(rt[1].comment) |-> CommentDict(rt[1].comment[i])]])

(***************************************************************************)
(* parse_request_diff_and_issues_xml                                       *)
(***************************************************************************)
\* "x.attrib.get('name', '')" of the first old / new child, "" without one
NameOfFirst(children) ==
    IF Len(children) = 0 THEN ""
    ELSE IF children[1].name = None THEN "" ELSE children[1].name

FileData(file_elem) ==
    LET name_old == NameOfFirst(file_elem.old)
        name_new == NameOfFirst(file_elem.new)
        state == IF name_old # "" /\ name_new # "" /\ name_old # name_new
                 THEN "renamed"
                 ELSE file_elem.state
        base == [state |-> state, name_old |-> name_old, name_new |-> name_new]
    IN  IF Len(file_elem.diff) = 0 THEN base
        ELSE base @@ ("content" :> StrippedText(file_elem.diff[1].text))

IssueData(issue_elem) ==
    [state |-> issue_elem.state,
     tracker |-> issue_elem.tracker,
     name |-> issue_elem.name,
     label |-> issue_elem.label,
     url |-> issue_elem.url]

\* a variant of sort_priority that puts the spec file first
sort_priority_spec_first(filename) ==
    IF EndsWith(filename, ".spec") THEN 0
    ELSE IF EndsWith(filename, ".changes") THEN 1
    ELSE 2

sort_priority(filename) ==
    IF EndsWith(filename, ".changes") THEN 0
    ELSE IF EndsWith(filename, ".spec") THEN 1
    ELSE 2

\* "f.get('name_new') or f.get('name_old', '')"
SortName(file_data) ==
    IF file_data.name_new # "" THEN file_data.name_new ELSE file_data.name_old

SortDiffFiles(diff_files) ==
    StableSort(diff_files,
               [i \in 1..Len(diff_files) |-> <<sort_priority(SortName(diff_files[i]))>>])

ParseRequestDiffAndIssuesXml(r0, rt) ==
    IF rt = <<>> THEN Returned(r0)
    ELSE
    LET actions == rt[1].action
        NoSourcediff(a) == Len(a.sourcediff) = 0
        files == Flatten([i \in 1..Len(actions) |->
                     IF NoSourcediff(actions[i]) THEN <<>>
                     ELSE actions[i].sourcediff[1].file])
        issue_elems == Flatten([i \in 1..Len(actions) |->
                     IF NoSourcediff(actions[i]) THEN <<>>
                     ELSE actions[i].sourcediff[1].issue])
        diff_files == [i \in 1..Len(files) |-> FileData(files[i])]
        issues == [i \in 1..Len(issue_elems) |-> IssueData(issue_elems[i])]
    IN  IF FirstIndex([i \in 1..Len(actions) |-> NoSourcediff(actions[i])]) > 0
        \* sourcediff_elem is None: "None.findall"
        THEN Raised(r0, "AttributeError", "findall", "parse_request_diff_and_issues_xml")
        ELSE Returned([r0 EXCEPT !.issues = issues,
                                 !.file_diffs = SortDiffFiles(diff_files)])

(***************************************************************************)
(* parse_results_xml                                                       *)
(***************************************************************************)
\* a variant of StatusMatches without the ":" of the sub-flavor convention
StatusMatchesAnyPrefix(status_package, pkg) ==
    \/ status_package = pkg
    \/ StartsWith(status_package, pkg)

\* the test that keeps a status of the result block
StatusMatches(status_package, pkg) ==
    \/ status_package = pkg
    \/ StartsWith(status_package, pkg \o ":")

\* a variant of KeepEntry that forgets the disabled builds
KeepEntryUnlessExcluded(entry) == entry.status_code \notin {"excluded"}

\* the test that keeps an emitted record in the grouping
KeepEntry(entry) == entry.status_code \notin {"excluded", "disabled"}

\* the first exception the loop over one status raises, NoExc if none
StatusExc(status, pkg) ==
    IF status.package = None
    THEN Exc("KeyError", "package", "parse_results_xml")
    ELSE IF pkg = None
    \* status.attrib["package"] == None is false, then None + ":"
    THEN Exc("TypeError", None, "parse_results_xml")
    ELSE IF StatusMatches(status.package, pkg) /\ status.code = None
    THEN Exc("KeyError", "code", "parse_results_xml")
    ELSE NoExc

ResultExc(result, pkg) ==
    LET attrs == <<"repository", "arch", "code", "state">>
        k == FirstIndex([i \in 1..Len(attrs) |-> result[attrs[i]] = None])
        j == FirstIndex([i \in 1..Len(result.status) |->
                            StatusExc(result.status[i], pkg) # NoExc])
    IN  IF k > 0 THEN Exc("KeyError", attrs[k], "parse_results_xml")
        ELSE IF j > 0 THEN StatusExc(result.status[j], pkg)
        ELSE NoExc

\* the records one result block emits, in document order
ParsedOfResult(result, pkg) ==
    LET Match(status) == StatusMatches(status.package, pkg)
        kept == SelectSeq(result.status, Match)
    IN  [i \in 1..Len(kept) |->
            [repository |-> result.repository,
             arch |-> result.arch,
             code |-> result.code,
             state |-> result.state,
             package |-> kept[i].package,
             status_code |-> kept[i].code,
             details |-> kept[i].details]]

ResultDict(entry) ==
    [code |-> entry.code,
     details |-> entry.details,
     state |-> entry.state,
     status_code |-> entry.status_code]

\* package -> repository -> architecture -> list; a key exists only when a
\* record is appended under it
Grouped(parsed_results) ==
    LET kept == SelectSeq(parsed_results, KeepEntry)
        Idx == 1..Len(kept)
        Under(p, r, a) ==
            LET Here(e) == e.package = p /\ e.repository = r /\ e.arch = a
                es == SelectSeq(kept, Here)
            IN  [i \in 1..Len(es) |-> ResultDict(es[i])]
    IN  [p \in {kept[i].package : i \in Idx} |->
          [r \in {kept[i].repository : i \in {j \in Idx : kept[j].package = p}} |->
            [a \in {kept[i].arch : i \in {j \in Idx : kept[j].package = p
                                                      /\ kept[j].repository = r}} |->
               Under(p, r, a)]]]

ParseResultsXml(r0, rt) ==
    IF rt = <<>> THEN Returned(r0)
    ELSE
    LET results == rt[1].result
        pkg == r0.package
        k == FirstIndex([i \in 1..Len(results) |-> ResultExc(results[i], pkg) # NoExc])
        parsed_results == Flatten([i \in 1..Len(results) |-> ParsedOfResult(results[i], pkg)])
    IN  IF k > 0
        THEN [req |-> r0, exc |-> ResultExc(results[k], pkg)]
        ELSE Returned([r0 EXCEPT !.results = PyDict(Grouped(parsed_results))])

(***************************************************************************)
(* Bounds of the model and the documents the remote service may answer.    *)
(***************************************************************************)
MaxCycleReviews == 1

MaxStagingReviews == 3

MaxReviews == 2

MaxEvents == 3

MaxDiffActions == 2

MaxFiles == 3

MaxResults == 2

MaxStatuses == 3

BSeq(S, n) == UNION {[1..k -> S] : k \in 0..n}

\* the ways to cut the sequence s into n consecutive parts, empty ones included
Cuts(n, len) ==
    {c \in [1..(n - 1) -> 0..len] : \A i \in 1..(n - 2) : c[i] <= c[i + 1]}

SplitAt(s, c, n) ==
    [i \in 1..n |-> SubSeq(s, (IF i = 1 THEN 0 ELSE c[i - 1]) + 1,
                              IF i = n THEN Len(s) ELSE c[i])]

Splits(s, n) ==
    IF n = 0 THEN (IF Len(s) = 0 THEN {<<>>} ELSE {})
    ELSE {SplitAt(s, c, n) : c \in Cuts(n, Len(s))}

RequestIds == {"1", "1234"}

ApiUrls == {"https://api.opensuse.org", "https://api.suse.de"}

StagingA == "openSUSE:Factory:Staging:A"

StagingB == "openSUSE:Factory:Staging:B"

Created == "2024-04-30T08:15:00"

ActionElem(source_package, target_package) ==
    [type |-> "submit",
     source |-> <<[project |-> "devel:tools", package |-> source_package, rev |-> "7"]>>,
     target |-> <<[project |-> "openSUSE:Factory", package |-> target_package]>>]

StateElem(name, created) ==
    [name |-> name,
     who |-> "alice",
     when |-> "2024-05-02T10:00:00",
     created |-> created,
     comment |-> "",
     superseded_by |-> IF name = "superseded" THEN "1235" ELSE None]

HistElem(who, when) ==
    [who |-> who, when |-> when, description |-> "Review got accepted", comment |-> ""]

ReviewElem(by_project, history) ==
    [state |-> "new",
     when |-> "2024-05-01T00:00:00",
     who |-> None,
     by_user |-> None,
     by_group |-> IF by_project = None THEN "factory-staging" ELSE None,
     by_project |-> by_project,
     comment |-> "",
     history |-> history]

RequestDoc(action, state, review) ==
    [creator |-> "alice",
     description |-> "update to 1.2",
     action |-> action,
     state |-> state,
     review |-> review]

\* primary documents that vary the state and the reviews' projects
StateNames == {"new", "review", "accepted", "superseded"}

ByProjects ==
    {None, "", StagingA, StagingB, "openSUSE:Factory", "home:bob:openSUSE:Factory:Staging:adi:1"}

StagingDoc(state, by_projects) ==
    RequestDoc(<<ActionElem("foo", "foobar")>>, state,
               [i \in 1..Len(by_projects) |-> ReviewElem(by_projects[i], <<>>)])

\* primary documents that vary the reviews' history events
HistEvents ==
    {HistElem(who, when) : who \in {"alice", "bob"},
                           when \in {"2024-05-01T00:00:00", "2024-04-30T23:00:00"}}
    \cup {HistElem("alice", "2024-05-01"),
          HistElem(None, "2024-05-01T00:00:00"),
          HistElem("alice", None),
          HistElem("alice", "2024-05-01T00:00:00+02:00")}

\* parts[i] are the history events of the i-th review
HistoryDoc(parts) ==
    RequestDoc(<<ActionElem("foo", "foobar")>>, <<StateElem("new", Created)>>,
               [i \in 1..Len(parts) |-> ReviewElem(None, parts[i])])

\* the primary documents of a whole render cycle
CycleRequestDocs ==
    {RequestDoc(a, st, rv) :
        a \in {<<>>, <<ActionElem("foo", "foobar")>>},
        st \in {<<>>, <<StateElem("new", Created)>>, <<StateElem("accepted", Created)>>,
                <<StateElem("new", "yesterday")>>},
        rv \in BSeq({ReviewElem(StagingA, <<>>),
                     ReviewElem(None, <<HistElem("bob", "2024-05-01T00:00:00")>>)},
                    MaxCycleReviews)}

CommentElem(id, parent, text) ==
    [id |-> id, who |-> "bob", when |-> "2024-05-01 12:00:00 UTC", parent |-> parent,
     text |-> text]

CommentsDocs ==
    {[comment |-> <<CommentElem("10", None, "\n  looks good \n"), CommentElem("11", "10", None)>>]}

FileElem(state, name_old, name_new) ==
    [state |-> state,
     old |-> IF name_old = None THEN <<>> ELSE <<[name |-> name_old]>>,
     new |-> IF name_new = None THEN <<>> ELSE <<[name |-> name_new]>>,
     diff |-> <<[text |-> "\n@@ -1 +1 @@\n"]>>]

IssueElem == 
    [state |-> "added", tracker |-> "bnc", name |-> "1200000", label |-> "boo#1200000",
     url |-> "https://bugzilla.opensuse.org/show_bug.cgi?id=1200000"]

FileElems ==
    {FileElem("add", n, n) : n \in {"foo.c", "foo.spec", "foo.changes"}}
    \cup {FileElem("delete", "foo.changes", None),
          FileElem("add", None, "foo.spec"),
          FileElem("change", "foo.changes", "foo.c"),
          FileElem("change", None, None)}

DiffAction(files) == [sourcediff |-> <<[file |-> files, issue |-> <<IssueElem>>]>>]

\* parts[i] are the files of the i-th action
DiffDoc(parts) == [action |-> [i \in 1..Len(parts) |-> DiffAction(parts[i])]]

\* a diff document whose second action has no sourcediff
BrokenDiffDoc ==
    [action |-> <<DiffAction(<<FileElem("add", "foo.c", "foo.c")>>), [sourcediff |-> <<>>]>>]

ScenarioDiffDoc ==
    DiffDoc(<<<<FileElem("add", "foo.c", "foo.c"),
                FileElem("add", "foo.spec", "foo.spec"),
                FileElem("add", "foo.changes", "foo.changes")>>>>)

CycleDiffDocs == {ScenarioDiffDoc}

StatusElem(package, code) ==
    [package |-> package, code |-> code,
     details |-> IF code = "succeeded" THEN None ELSE "not built"]

StatusElems ==
    {StatusElem("foo", c) : c \in {"succeeded", "excluded", "disabled"}}
    \cup {StatusElem("foo:doc", "failed"), StatusElem("foobar", "succeeded"),
          StatusElem(None, "succeeded")}

\* the i-th result block of a document; blocks 1 and 3 name the same
\* repository and architecture
ResultElem(i, statuses) ==
    [repository |-> "standard",
     arch |-> IF i % 2 = 1 THEN "x86_64" ELSE "i586",
     code |-> "published",
     state |-> "published",
     status |-> statuses]

\* parts[i] are the statuses of the i-th result block
ResultsDoc(parts) == [result |-> [i \in 1..Len(parts) |-> ResultElem(i, parts[i])]]

CycleResultsDocs ==
    {[result |-> <<ResultElem(1, <<StatusElem("foo", "succeeded"),
                                   StatusElem("foobar", "excluded")>>)>>]}

(***************************************************************************)
(* generate_request, one action per fetch and per parser                   *)
(***************************************************************************)
NoResp == [status |-> 0, rid |-> None, error |-> NoExc]

\* fetch_xml: the parsed document, or None after logging the failure
FetchXml(name, docs, next) ==
    /\ \E r \in {<<>>} \cup {<<d>> : d \in docs} :
          /\ root' = r
          /\ absent' = IF r = <<>> THEN absent \cup {name} ELSE absent
    /\ pc' = next
    /\ UNCHANGED <<req, err, resp>>

\* a parser call: the request as the parser left it, and the exception, if any,
\* leaves generate_request
Parse(result, next) ==
    /\ req' = result.req
    /\ err' = result.exc
    /\ pc' = IF result.exc = NoExc THEN next ELSE "raised"
    /\ UNCHANGED <<root, resp, absent>>

FetchRequest ==
    /\ pc = "fetch_request"
    /\ FetchXml("request", CycleRequestDocs, "parse_request")

ParseRequest ==
    /\ pc = "parse_request"
    /\ Parse(ParseRequestXml(req, root), "fetch_comments")

FetchComments ==
    /\ pc = "fetch_comments"
    /\ FetchXml("comments", CommentsDocs, "parse_comments")

ParseComments ==
    /\ pc = "parse_comments"
    /\ Parse(ParseCommentsRequestXml(req, root), "fetch_diff")

FetchDiff ==
    /\ pc = "fetch_diff"
    /\ FetchXml("diff", CycleDiffDocs, "parse_diff")

ParseDiff ==
    /\ pc = "parse_diff"
    /\ Parse(ParseRequestDiffAndIssuesXml(req, root), "fetch_results")

\* the URL of the build results is built before fetch_xml is called:
\* req.action["source_project"] is a KeyError on an empty action
FetchResults ==
    /\ pc = "fetch_results"
    /\ IF ~Truthy(req.staging) /\ "source_project" \notin DOMAIN req.action
       THEN /\ err' = Exc("KeyError", "source_project", "generate_request")
            /\ pc' = "raised"
            /\ UNCHANGED <<root, req, resp, absent>>
       ELSE FetchXml("results", CycleResultsDocs, "parse_results")

ParseResults ==
    /\ pc = "parse_results"
    /\ Parse(ParseResultsXml(req, root), "render")

\* template.render and show_request's answer
Render ==
    /\ pc = "render"
    /\ pc' = "done"
    /\ resp' = [status |-> 200, rid |-> req.rid, error |-> NoExc]
    /\ UNCHANGED <<root, req, err, absent>>

\* show_request: "except Exception as e", the answer names the request id
ShowRequestError ==
    /\ pc = "raised"
    /\ pc' = "done"
    /\ resp' = [status |-> 500, rid |-> req.rid, error |-> err]
    /\ UNCHANGED <<root, req, err, absent>>

Init ==
    /\ pc = "fetch_request"
    /\ root = <<>>
    /\ \E rid \in RequestIds, apiurl \in ApiUrls : req = NewRequest(rid, apiurl)
    /\ err = NoExc
    /\ resp = NoResp
    /\ absent = {}

Next ==
    \/ FetchRequest
    \/ ParseRequest
    \/ FetchComments
    \/ ParseComments
    \/ FetchDiff
    \/ ParseDiff
    \/ FetchResults
    \/ ParseResults
    \/ Render
    \/ ShowRequestError

Spec == Init /\ [][Next]_vars

(***************************************************************************)
(* The parsers on their own: each specification starts where generate_request*)
(* is about to call one parser, with a document of a larger family, and    *)
(* takes that one step.                                                    *)
(***************************************************************************)
\* the request after parse_request_xml on the document doc
RequestAfter(doc) == ParseRequestXml(NewRequest("1234", "https://api.opensuse.org"), <<doc>>).req

InitRequest ==
    /\ pc = "parse_request"
    /\ \/ \E state \in {<<>>} \cup {<<StateElem(name, Created)>> : name \in StateNames},
             k \in 0..MaxStagingReviews :
             \E by_projects \in [1..k -> ByProjects] :
                root = <<StagingDoc(state, by_projects)>>
       \/ \E k \in 0..MaxEvents, n \in 0..MaxReviews :
             \E events \in [1..k -> HistEvents] :
                \E parts \in Splits(events, n) :
                   root = <<HistoryDoc(parts)>>
    /\ req = NewRequest("1234", "https://api.opensuse.org")
    /\ err = NoExc
    /\ resp = NoResp
    /\ absent = {}

SpecRequest == InitRequest /\ [][ParseRequest]_vars

\* the primary document and the comments were absent
InitDiff ==
    /\ pc = "parse_diff"
    /\ \/ \E k \in 0..MaxFiles, n \in 0..MaxDiffActions :
             \E files \in [1..k -> FileElems] :
                \E parts \in Splits(files, n) :
                   root = <<DiffDoc(parts)>>
       \/ root = <<BrokenDiffDoc>>
    /\ req = NewRequest("1234", "https://api.opensuse.org")
    /\ err = NoExc
    /\ resp = NoResp
    /\ absent = {"request", "comments"}

SpecDiff == InitDiff /\ [][ParseDiff]_vars

\* the primary document was parsed, the comments and the diff were absent; the
\* last request has no action and is staged, so that its package is None
ResultsRequests ==
    {RequestAfter(RequestDoc(<<ActionElem(p, "foo:doc")>>, <<StateElem("new", Created)>>, <<>>)) :
        p \in {"foo", "foobar"}}
    \cup {RequestAfter(RequestDoc(<<>>, <<StateElem("new", Created)>>,
                                  <<ReviewElem(StagingA, <<>>)>>))}

InitResults ==
    /\ pc = "parse_results"
    /\ \E k \in 0..MaxStatuses, n \in 0..MaxResults :
          \E statuses \in [1..k -> StatusElems] :
             \E parts \in Splits(statuses, n) :
                root = <<ResultsDoc(parts)>>
    /\ req \in ResultsRequests
    /\ err = NoExc
    /\ resp = NoResp
    /\ absent = {"comments", "diff"}

SpecResults == InitResults /\ [][ParseResults]_vars

(***************************************************************************)
(* Properties                                                              *)
(***************************************************************************)
\* parse_request_xml returned on a present primary document
RequestParsed == pc = "fetch_comments" /\ root # <<>>

\* parse_request_diff_and_issues_xml returned on a present diff document
DiffParsed == pc = "fetch_results" /\ root # <<>>

\* parse_results_xml returned on a present build-result document
ResultsParsed == pc = "render" /\ root # <<>>

Bijections(n) ==
    {f \in [1..n -> 1..n] : \A i, j \in 1..n : f[i] = f[j] => i = j}

Max(S) == CHOOSE x \in S : \A y \in S : y <= x

\* C1: when parse_request_xml has completed on a present primary document,
\* req.package is action.target_package if req.staging is set and
\* action.source_package if it is absent.
C1_PackageFollowsStaging ==
    RequestParsed =>
        req.package = IF req.staging # None
                      THEN DictGet(req.action, "target_package")
                      ELSE DictGet(req.action, "source_package")

\* C2: a document that fetch_xml reported absent is never fatal to the render
\* cycle, and the fields it would have populated keep their defaults.
C2_AbsentDocumentNeverFatal ==
    LET fresh == NewRequest(req.rid, req.apiurl)
    IN  /\ "request" \in absent =>
              /\ err = NoExc /\ pc # "raised" /\ resp.status # 500
              /\ req.creator = None /\ req.description = None
              /\ DOMAIN req.action = {} /\ DOMAIN req.state = {}
              /\ req.reviews = <<>> /\ req.history = <<>>
              /\ req.package = None /\ req.staging = None
        /\ "comments" \in absent => req.comments = <<>>
        /\ "diff" \in absent => req.issues = <<>> /\ req.file_diffs = <<>>
        /\ "results" \in absent => req.results = fresh.results

\* C3: after parse_request_xml on a primary document with a state element,
\* req.staging is absent when the state is accepted or superseded or no
\* review's by_project contains the staging marker; otherwise it is the
\* by_project of the last review, in document order, that contains it.
C3_StagingIsLastMatchingReview ==
    (RequestParsed /\ Len(root[1].state) > 0) =>
        LET reviews == root[1].review
            name == root[1].state[1].name
            matching == {i \in 1..Len(reviews) :
                            /\ reviews[i].by_project # None
                            /\ Contains(reviews[i].by_project, "openSUSE:Factory:Staging")}
        IN  IF name \in {"accepted", "superseded"} \/ matching = {}
            THEN req.staging = None
            ELSE req.staging = reviews[Max(matching)].by_project

\* C3 witness: an open request with two matching reviews of different projects
\* followed by a review that does not match
C3_Witness ==
    /\ RequestParsed
    /\ Len(root[1].state) > 0 /\ root[1].state[1].name = "new"
    /\ Len(root[1].review) = 3
    /\ root[1].review[1].by_project = StagingA
    /\ root[1].review[2].by_project = StagingB
    /\ root[1].review[3].by_project = "openSUSE:Factory"
    /\ req.staging = StagingB

\* C4: a state element whose created value cannot be parsed makes the render
\* cycle fail with a RequiredFieldMissing failure that carries the request's
\* id and the name of the field.
C4_UnparsableCreatedIsTypedFailure ==
    (/\ err.where = "parse_request_xml"
     /\ root # <<>>
     /\ Len(root[1].state) > 0
     /\ root[1].state[1].created # None
     /\ ~fromisoformat(root[1].state[1].created).ok) =>
        /\ err.type = "RequiredFieldMissing"
        /\ err.rid = req.rid
        /\ err.field = "created"

\* the history events of a primary document, in document order
DocEvents(doc) == Flatten([i \in 1..Len(doc.review) |-> doc.review[i].history])

WellFormedEvent(e) == e.who # None /\ e.when # None

\* C5: a review history event that lacks its who or its when is skipped: the
\* parser raises nothing, req.history has no entry for it and has one for
\* every well-formed event.
C5_MalformedEventSkipped ==
    (/\ pc \in {"fetch_comments", "raised"}
     /\ root # <<>>
     /\ Len(root[1].state) > 0
     /\ \E i \in 1..Len(DocEvents(root[1])) : ~WellFormedEvent(DocEvents(root[1])[i])
     /\ \A i \in 1..Len(DocEvents(root[1])) :
           LET e == DocEvents(root[1])[i]
           IN  WellFormedEvent(e) =>
                  fromisoformat(e.when).ok /\ ~fromisoformat(e.when).dt.aware) =>
        LET good == SelectSeq(DocEvents(root[1]), WellFormedEvent)
        IN  /\ err = NoExc
            /\ Len(req.history) = Len(good)
            /\ \A i \in 1..Len(good) : \E k \in 1..Len(req.history) :
                  /\ req.history[k].who = good[i].who
                  /\ req.history[k].when = fromisoformat(good[i].when).dt

\* C6: after parse_results_xml no entry of req.results, at any package,
\* repository and architecture, has status_code excluded or disabled.
C6_NoExcludedOrDisabledResult ==
    ResultsParsed =>
        \A p \in DOMAIN req.results.items :
            \A r \in DOMAIN req.results.items[p] :
                \A a \in DOMAIN req.results.items[p][r] :
                    \A i \in 1..Len(req.results.items[p][r][a]) :
                        req.results.items[p][r][a][i].status_code \notin {"excluded", "disabled"}

\* the statuses of a build-result document, flattened in document order, each
\* with the attributes of its result block
DocStatuses(doc) ==
    Flatten([b \in 1..Len(doc.result) |->
        [j \in 1..Len(doc.result[b].status) |->
            [repository |-> doc.result[b].repository,
             arch |-> doc.result[b].arch,
             package |-> doc.result[b].status[j].package,
             entry |-> [code |-> doc.result[b].code,
                        details |-> doc.result[b].status[j].details,
                        state |-> doc.result[b].state,
                        status_code |-> doc.result[b].status[j].code]]]])

\* C6 witness: the document has excluded and disabled statuses of the package
\* and a status that is kept
C6_Witness ==
    /\ ResultsParsed
    /\ req.package = "foo"
    /\ \E i, j \in 1..Len(DocStatuses(root[1])) :
          /\ DocStatuses(root[1])[i].package = "foo"
          /\ DocStatuses(root[1])[i].entry.status_code = "excluded"
          /\ DocStatuses(root[1])[j].package = "foo"
          /\ DocStatuses(root[1])[j].entry.status_code = "disabled"
    /\ "foo" \in DOMAIN req.results.items

\* the statuses of the document that are for the package P or one of its
\* sub-flavors and are neither excluded nor disabled
Relevant(doc, P) ==
    LET Rel(s) == /\ s.package = P \/ StartsWith(s.package, P \o ":")
                  /\ s.entry.status_code \notin {"excluded", "disabled"}
    IN  SelectSeq(DocStatuses(doc), Rel)

\* the entries of the statuses in ss that are at repository r and architecture a
EntriesAt(ss, r, a) ==
    LET At(s) == s.repository = r /\ s.arch = a
        here == SelectSeq(ss, At)
    IN  [i \in 1..Len(here) |-> here[i].entry]

\* the mapping that holds the statuses of ss, each under its field "key"
GroupedByKey(ss) ==
    LET Idx == 1..Len(ss)
        Of(k) == LET Has(s) == s.key = k IN SelectSeq(ss, Has)
    IN  [k \in {ss[i].key : i \in Idx} |->
          [r \in {ss[i].repository : i \in {j \in Idx : ss[j].key = k}} |->
            [a \in {ss[i].arch : i \in {j \in Idx : ss[j].key = k /\ ss[j].repository = r}} |->
               EntriesAt(Of(k), r, a)]]]

\* the statuses of ss, each with the key it is expected under: the target
\* package P, or its own package attribute
KeyedByTarget(ss, P) == [i \in 1..Len(ss) |-> ss[i] @@ ("key" :> P)]

KeyedByOwn(ss) == [i \in 1..Len(ss) |-> ss[i] @@ ("key" :> ss[i].package)]

\* C7, as stated: the statuses for P or a sub-flavor "P:..." that are not
\* excluded or disabled are in req.results under the target package P, and no
\* other status is anywhere in req.results.
C7_StatusesUnderTargetPackage ==
    ResultsParsed =>
        req.results.items =
            GroupedByKey(KeyedByTarget(Relevant(root[1], req.package), req.package))

\* C7, amended: a status that is not excluded or disabled is in req.results
\* exactly when its package attribute is P or starts with "P:", and it is
\* there under its own package attribute (P only for an exact match), at its
\* block's repository and architecture, in document order.
C7_StatusesUnderOwnPackage ==
    ResultsParsed =>
        req.results.items =
            GroupedByKey(KeyedByOwn(Relevant(root[1], req.package)))

\* C7 witness: statuses of the package, of a sub-flavor and of an unrelated
\* package with a common prefix
C7_Witness ==
    /\ ResultsParsed
    /\ req.package = "foo"
    /\ \E i, j, k \in 1..Len(DocStatuses(root[1])) :
          /\ DocStatuses(root[1])[i].package = "foo"
          /\ DocStatuses(root[1])[i].entry.status_code = "succeeded"
          /\ DocStatuses(root[1])[j].package = "foo:doc"
          /\ DocStatuses(root[1])[k].package = "foobar"
    /\ DOMAIN req.results.items = {"foo", "foo:doc"}

\* C8: after parse_request_xml, req.history has exactly one entry for each
\* history event of the reviews in req.reviews and is sorted non-decreasing by
\* timestamp, entries of equal timestamp in their encounter order.
C8_HistoryStablySorted ==
    RequestParsed =>
        LET events == ReviewEvents(req.reviews)
            n == Len(events)
        IN  /\ Len(req.history) = n
            /\ \E f \in Bijections(n) :
                  /\ \A k \in 1..n :
                        /\ req.history[k].who = events[f[k]].who
                        /\ req.history[k].when = fromisoformat(events[f[k]].when).dt
                        /\ req.history[k].description = events[f[k]].description
                        /\ req.history[k].comment = events[f[k]].comment
                  /\ \A k, l \in 1..n : k < l =>
                        \/ LexLess(req.history[k].when.key, req.history[l].when.key)
                        \/ /\ req.history[k].when.key = req.history[l].when.key
                           /\ f[k] < f[l]

\* C8 witness: three events in two reviews; the last one is the earliest, the
\* first two have the same timestamp, written differently, and different authors
C8_Witness ==
    /\ RequestParsed
    /\ Len(req.reviews) = 2
    /\ Len(req.reviews[1].history) = 1
    /\ ReviewEvents(req.reviews) = <<HistoryDict(HistElem("alice", "2024-05-01")),
                                     HistoryDict(HistElem("bob", "2024-05-01T00:00:00")),
                                     HistoryDict(HistElem("bob", "2024-04-30T23:00:00"))>>
    /\ Len(req.history) = 3
    /\ req.history[1].when.key = <<2024, 4, 30, 23, 0, 0>>
    /\ req.history[2].who = "alice"
    /\ req.history[3].who = "bob"
    /\ req.history[2].when = req.history[3].when

\* the priority of a file element: by its new name if it has one, else by its
\* old name
FilePriority(file_elem) ==
    LET HasName(children) ==
            Len(children) > 0 /\ children[1].name # None /\ children[1].name # ""
        name == IF HasName(file_elem.new) THEN file_elem.new[1].name
                ELSE IF HasName(file_elem.old) THEN file_elem.old[1].name
                ELSE ""
    IN  IF EndsWith(name, ".changes") THEN 0
        ELSE IF EndsWith(name, ".spec") THEN 1
        ELSE 2

DocFiles(doc) == Flatten([i \in 1..Len(doc.action) |-> doc.action[i].sourcediff[1].file])

\* C9: after parse_request_diff_and_issues_xml, req.file_diffs holds every file
\* element of the diff document, .changes names before .spec names before the
\* others, files of equal priority in document order; foo.c, foo.spec,
\* foo.changes come out as foo.changes, foo.spec, foo.c.
C9_FileDiffsByPriority ==
    DiffParsed =>
        LET files == DocFiles(root[1])
            n == Len(files)
        IN  /\ Len(req.file_diffs) = n
            /\ \E f \in Bijections(n) :
                  /\ \A k \in 1..n : req.file_diffs[k] = FileData(files[f[k]])
                  /\ \A k, l \in 1..n : k < l =>
                        \/ FilePriority(files[f[k]]) < FilePriority(files[f[l]])
                        \/ /\ FilePriority(files[f[k]]) = FilePriority(files[f[l]])
                           /\ f[k] < f[l]
            /\ root[1] = ScenarioDiffDoc =>
                  [k \in 1..n |-> req.file_diffs[k].name_new] =
                      <<"foo.changes", "foo.spec", "foo.c">>

\* C9 witness: the scenario foo.c, foo.spec, foo.changes
C9_Witness ==
    /\ DiffParsed
    /\ root[1] = ScenarioDiffDoc
    /\ Len(req.file_diffs) = 3
    /\ req.file_diffs[1].name_new = "foo.changes"
    /\ req.file_diffs[3].name_old = "foo.c"

\* C10: when the build-result document is absent, parse_results_xml raises
\* nothing and req.results is the empty mapping {} at the end of the cycle.
C10_AbsentResultsIsEmptyMapping ==
    ("results" \in absent /\ pc \in {"render", "done"}) =>
        /\ err = NoExc
        /\ req.results = PyDict(EmptyDict)

====
